---- MODULE Spec2Model ----
(***************************************************************************)
(* Model of the electric-bill OCR service: the Flask handlers of app.py    *)
(* (start_session, upload_and_process_file, aggregate_results) over the    *)
(* processing/ and uploads/ folders, and the Stage-1 / Stage-2 pipeline of *)
(* ocr_logic.py.  Each handler is split at its file-system calls, so that  *)
(* concurrent requests interleave as the threads of the server do.         *)
(***************************************************************************)
EXTENDS Integers, Sequences, FiniteSets, TLC

\* ------------------------------------------------------------------ bounds
MaxWorkers == 2      \* request-handling threads of the server
MaxSessions == 1     \* calls of start_session
MaxUploads == 2      \* uploaded files over a behaviour
MaxPages == 2        \* pages of one document
MaxBatch == 1        \* pages of a document uploaded while requests interleave
MaxTokenLen == 2     \* characters of a session_id sent by a client
MaxRecs == 2         \* consumption records of one PageRecord

Workers == 1..MaxWorkers

\* ---------------------------------------------------------- session tokens
\* A session_id is a string, modelled as the sequence of its characters.
Alphabet == {"a", ".", "/"}
Tokens == UNION {[1..n -> Alphabet] : n \in 0..MaxTokenLen}

\* uuid.uuid4(): the n-th identifier handed out (n >= 1); identifiers are
\* pairwise distinct and made of characters that are neither '.' nor '/'.
Uuid(n) == [i \in 1..n |-> "a"]

HasDotDot(t) == \E i \in 1..(Len(t) - 1) : t[i] = "." /\ t[i + 1] = "."
HasSlash(t) == \E i \in 1..Len(t) : t[i] = "/"

\* Locations of the file system, as seen from PROCESSING_FOLDER:
\* ROOT is the folder itself, a session directory is named by its name,
\* OUTSIDE is an existing directory above or beside the folder, ABSENT is a
\* path at which no directory exists.
ROOT == <<>>
OUTSIDE == <<"..">>
ABSENT == <<"?">>

\* The components of a path string, split at '/'.
RECURSIVE Split(_, _, _)
Split(t, i, cur) ==
  IF i > Len(t) THEN <<cur>>
  ELSE IF t[i] = "/" THEN <<cur>> \o Split(t, i + 1, <<>>)
  ELSE Split(t, i + 1, Append(cur, t[i]))

\* Resolution of the components below PROCESSING_FOLDER: stack is the
\* sequence of directory names walked so far, up counts the steps above
\* the folder.
RECURSIVE Walk(_, _, _, _)
Walk(comps, i, stack, up) ==
  IF i > Len(comps) THEN
    IF up > 0 THEN (IF stack = <<>> THEN OUTSIDE ELSE ABSENT)
    ELSE IF stack = <<>> THEN ROOT
    ELSE IF Len(stack) = 1 THEN stack[1]
    ELSE ABSENT
  ELSE IF comps[i] = <<>> \/ comps[i] = <<".">> THEN Walk(comps, i + 1, stack, up)
  ELSE IF comps[i] = <<".", ".">> THEN
    IF stack = <<>> THEN Walk(comps, i + 1, stack, up + 1)
    ELSE Walk(comps, i + 1, SubSeq(stack, 1, Len(stack) - 1), up)
  ELSE Walk(comps, i + 1, Append(stack, comps[i]), up)

\* os.path.join(PROCESSING_FOLDER, session_id), resolved: an absolute
\* session_id discards PROCESSING_FOLDER.
SessionPath(t) ==
  IF t # <<>> /\ t[1] = "/"
  THEN (IF \A i \in 1..Len(t) : t[i] \in {"/", "."} THEN OUTSIDE ELSE ABSENT)
  ELSE Walk(Split(t, 1, <<>>), 1, <<>>, 0)

\* ------------------------------------------------------------- documents
\* What the two network services answer for one document.  A page is the
\* OCR answer for it (err: the page-level error message is set) and the
\* answer of the completion service to that page's Stage-1 prompt.
\* The answers of the completion service to a Stage-1 prompt:
\*   error     the call raised
\*   nonjson   text that json.loads rejects
\*   emptyobj  the object {}
\*   norecs    an object whose consumption_records is missing or []
\*   recs      an object with a non-empty list of record objects
\*   badlist   an object with a non-empty list of values that are not objects
\*   nonlist   an object whose consumption_records is a non-empty string or
\*             object, or a number other than 0
GptKinds == {"error", "nonjson", "emptyobj", "norecs", "recs", "badlist", "nonlist"}
Documents(max, kinds) ==
  [callFails : BOOLEAN,
   pages : UNION {[1..n -> [err : BOOLEAN, gpt : kinds]] : n \in 0..max}]

Exts == {".pdf", ".PDF", ".jpg", ".jpeg", ".png", ".txt", ""}

\* str.lower() on the extensions of Exts.
Lower(ext) == IF ext = ".PDF" THEN ".pdf" ELSE ext

ImageExts == {".jpg", ".jpeg", ".png"}

\* The documents the OCR service can answer with for a file of that type:
\* a still image is answered with a single response.
DocsFor(ext, max, kinds) ==
  IF Lower(ext) \in ImageExts
  THEN {d \in Documents(max, kinds) : Len(d.pages) = 1}
  ELSE Documents(max, kinds)

\* Result of a call that may raise: exc is "" when it returned.
NoPages == <<>>
Raised(e, ocr) == [exc |-> e, pages |-> NoPages, ocr |-> ocr]

\* The kept pages numbered by their position among the kept ones.
PdfPages_Renumbered(d) ==
  LET idx == SelectSeq([j \in 1..Len(d.pages) |-> j],
                       LAMBDA j : ~d.pages[j].err)
  IN  [k \in 1..Len(idx) |-> [page_num |-> k, text |-> idx[k]]]

\* The pages kept from a PDF answer: those without an error, each with
\* its index j+1 in the answer; text names the page the text comes from.
PdfPages(d) ==
  LET idx == SelectSeq([j \in 1..Len(d.pages) |-> j],
                       LAMBDA j : ~d.pages[j].err)
  IN  [k \in 1..Len(idx) |-> [page_num |-> idx[k], text |-> idx[k]]]

\* extract_text_from_pages(file_path, google_credentials); exists says
\* whether file_path names a file when it is opened.
extract_text_from_pages(ext, exists, d) ==
  IF Lower(ext) # ".pdf" /\ Lower(ext) \notin ImageExts
    THEN Raised("ValueError", 0)
  ELSE IF ~exists THEN Raised("FileNotFoundError", 0)
  ELSE IF d.callFails THEN Raised("ServiceError", 1)
  ELSE IF Lower(ext) = ".pdf"
    THEN [exc |-> "", pages |-> PdfPages(d), ocr |-> 1]
  ELSE IF d.pages[1].err THEN Raised("VisionError", 1)
  ELSE Raised("UnboundLocalError", 1)

\* run_gpt_analysis: the parsed object, or None for a failed call and for
\* a response that is not JSON.
run_gpt_analysis(kind) == IF kind \in {"error", "nonjson"} THEN "None" ELSE kind

\* page_summary and page_summary.get("consumption_records")
Accepted(summary) == summary \in {"recs", "badlist", "nonlist"}

\* A PageRecord: the object appended for a page; doc and page name the
\* upload and the source page it was made from.
PageRecord(doc, page, summary) == [doc |-> doc, page |-> page, kind |-> summary]

\* The loop of run_stage1_for_file over the extracted pages.
RECURSIVE Stage1Loop(_, _, _, _)
Stage1Loop(doc, d, pages, i) ==
  IF i > Len(pages) THEN <<>>
  ELSE LET summary == run_gpt_analysis(d.pages[pages[i].text].gpt)
       IN  (IF Accepted(summary)
            THEN <<PageRecord(doc, pages[i].text, summary)>>
            ELSE <<>>) \o Stage1Loop(doc, d, pages, i + 1)

\* Stage 1 with a second completion request for every page whose first
\* request failed.
run_stage1_for_file_Retry(doc, ext, exists, d) ==
  LET ex == extract_text_from_pages(ext, exists, d)
      failed == {i \in 1..Len(ex.pages) : d.pages[ex.pages[i].text].gpt = "error"}
  IN  IF ex.exc # ""
      THEN [exc |-> ex.exc, out |-> <<>>, ocr |-> ex.ocr, gpt |-> 0]
      ELSE [exc |-> "", out |-> Stage1Loop(doc, d, ex.pages, 1),
            ocr |-> ex.ocr, gpt |-> Len(ex.pages) + Cardinality(failed)]

\* run_stage1_for_file(filepath, ...): exc, the accepted PageRecords, and
\* the numbers of requests sent to the OCR and the completion service.
run_stage1_for_file(doc, ext, exists, d) ==
  LET ex == extract_text_from_pages(ext, exists, d)
  IN  IF ex.exc # ""
      THEN [exc |-> ex.exc, out |-> <<>>, ocr |-> ex.ocr, gpt |-> 0]
      ELSE [exc |-> "", out |-> Stage1Loop(doc, d, ex.pages, 1),
            ocr |-> ex.ocr, gpt |-> Len(ex.pages)]


\* ------------------------------------------------------------------ state
VARIABLES
  store,        \* PROCESSING_FOLDER: directory -> (result file stem -> file)
  scratch,      \* UPLOAD_FOLDER: the files in it, each with its content
  req,          \* per worker thread: the request it handles, and where
  nextUuid,     \* number of sessions started
  nextUpload,   \* number of files uploaded
  credentials,  \* google_credentials is not None
  wiped,        \* directories whose content a cleanup has removed
  s1in,         \* Stage-1 check: the file and the services' answers
  s1pc,         \* Stage-1 check: position
  s1res,        \* Stage-1 check: result of the call
  s2res,        \* Stage-2 check: answer given and result of the call
  prompt        \* prompt check: the argument of get_stage2_prompt and its result

vars == <<store, scratch, req, nextUuid, nextUpload, credentials, wiped,
          s1in, s1pc, s1res, s2res, prompt>>
s1Vars == <<s1in, s1pc, s1res, s2res, prompt>>

Stems == {"x", "y"}
\* file.filename after secure_filename, split by os.path.splitext
AllNames == [stem : Stems, ext : Exts]
NoUpload == [stem |-> "", ext |-> ""]

EmptyDir == <<>>

\* A request in a worker thread.  touched: a storage call was made for it;
\* empty: the listing of its session directory named no result file;
\* ocr, gpt: requests it sent to the OCR and the completion service;
\* sent: the all_page_outputs of an Aggregate answered with a final report.
Idle ==
  [op |-> "none", pc |-> "idle", token |-> <<>>, stem |-> "", ext |-> "",
   doc |-> 0, out |-> <<>>, todo |-> {}, empty |-> FALSE, outcome |-> "",
   err |-> "", sent |-> <<>>,
   touched |-> FALSE, ocr |-> 0, gpt |-> 0]

Free(w) == req[w].pc \in {"idle", "done"}

\* The response of a finished request; the thread keeps nothing else.
Done(r) ==
  [Idle EXCEPT !.op = r.op, !.pc = "done", !.token = r.token,
               !.ext = r.ext, !.empty = r.empty,
               !.out = IF r.op = "ProcessFile" /\ r.outcome = "Success"
                       THEN r.out ELSE <<>>,
               !.outcome = r.outcome, !.err = r.err, !.sent = r.sent,
               !.touched = r.touched,
               !.ocr = r.ocr, !.gpt = r.gpt]

\* os.path.isdir
IsDir(loc) == loc = OUTSIDE \/ loc \in DOMAIN store

\* The test without its '/' clause.
TokenSyntaxOk_NoSlash(t) == ~(t = <<>> \/ HasDotDot(t))

\* The first test of is_session_valid (line 54).
TokenSyntaxOk(t) == ~(t = <<>> \/ HasDotDot(t) \/ HasSlash(t))

is_session_valid(t) == TokenSyntaxOk(t) /\ IsDir(SessionPath(t))

Rejected(op, t) ==
  [Idle EXCEPT !.op = op, !.pc = "done", !.token = t,
               !.outcome = "InvalidSession", !.touched = TokenSyntaxOk(t)]

\* os.path.join(UPLOAD_FOLDER, f"{session_id}_{filename}")
ScratchPath(r) == [sid |-> r.token, stem |-> r.stem, ext |-> r.ext]
ScratchAt(p) == {f \in scratch : f.path = p}

NoInput == [ext |-> "", exists |-> FALSE, d |-> [callFails |-> FALSE, pages |-> <<>>]]
NoResult == [exc |-> "", pages |-> <<>>, out |-> <<>>, ocr |-> 0, gpt |-> 0]
NoReport == [answer |-> "", exc |-> "", gpt |-> 0, report |-> ""]
NoPrompt == [pc |-> "off", given |-> <<>>, arg |-> <<>>, flat |-> <<>>]

InitApp ==
  /\ store = (ROOT :> EmptyDir)
  /\ scratch = {}
  /\ req = [w \in Workers |-> Idle]
  /\ nextUuid = 0
  /\ nextUpload = 0
  /\ wiped = {}

Init ==
  /\ InitApp
  /\ credentials = TRUE
  /\ s1in = NoInput /\ s1pc = "off" /\ s1res = NoResult
  /\ s2res = NoReport /\ prompt = NoPrompt

\* start_session
StartSession ==
  /\ nextUuid < MaxSessions
  /\ nextUuid' = nextUuid + 1
  /\ store' = (Uuid(nextUuid + 1) :> EmptyDir) @@ store
  /\ UNCHANGED <<scratch, req, nextUpload, credentials, wiped, s1Vars>>

\* --------------------------------------------- upload_and_process_file
\* Lines 63-71: validation of the session and of the uploaded file.
PF_Begin(w, t, f) ==
  /\ Free(w)
  /\ IF ~is_session_valid(t)
     THEN /\ req' = [req EXCEPT ![w] = Rejected("ProcessFile", t)]
          /\ UNCHANGED nextUpload
     ELSE IF f = NoUpload
     THEN /\ req' = [req EXCEPT ![w] =
                 [Idle EXCEPT !.op = "ProcessFile", !.pc = "done", !.token = t,
                              !.outcome = "NoFile", !.touched = TRUE]]
          /\ UNCHANGED nextUpload
     ELSE /\ nextUpload < MaxUploads
          /\ nextUpload' = nextUpload + 1
          /\ req' = [req EXCEPT ![w] =
                 [Idle EXCEPT !.op = "ProcessFile", !.pc = "save", !.token = t,
                              !.stem = f.stem, !.ext = f.ext,
                              !.doc = nextUpload + 1, !.touched = TRUE]]
  /\ UNCHANGED <<store, scratch, nextUuid, credentials, wiped, s1Vars>>

\* Lines 72-73: file.save(filepath)
PF_Save(w) ==
  /\ req[w].op = "ProcessFile" /\ req[w].pc = "save"
  /\ scratch' = (scratch \ ScratchAt(ScratchPath(req[w])))
                  \cup {[path |-> ScratchPath(req[w]), doc |-> req[w].doc]}
  /\ req' = [req EXCEPT ![w].pc = "stage1"]
  /\ UNCHANGED <<store, nextUuid, nextUpload, credentials, wiped, s1Vars>>

\* The except clause returning without the finally clause.
PF_Fail_NoFinally(r, e) == Done([r EXCEPT !.outcome = "Failed", !.err = e, !.out = <<>>])

\* The except clause (lines 92-94) followed by the finally clause.
PF_Fail(r, e) ==
  [r EXCEPT !.pc = "finally", !.outcome = "Failed", !.err = e, !.out = <<>>]

\* Lines 76-80 and 83: the credentials test and Stage 1 on the saved file,
\* for a document of at most max pages with answers of kinds.
PF_Stage1(w, max, kinds) ==
  /\ req[w].op = "ProcessFile" /\ req[w].pc = "stage1"
  /\ IF ~credentials
     THEN req' = [req EXCEPT ![w] = PF_Fail(req[w], "ConnectionError")]
     ELSE \E d \in DocsFor(req[w].ext, max, kinds) :
       LET here == ScratchAt(ScratchPath(req[w]))
           doc == IF here = {} THEN 0 ELSE (CHOOSE f \in here : TRUE).doc
           r == run_stage1_for_file(doc, req[w].ext, here # {}, d)
           seen == [req[w] EXCEPT !.ocr = r.ocr, !.gpt = r.gpt]
       IN  req' = [req EXCEPT ![w] =
             IF r.exc # "" THEN PF_Fail(seen, r.exc)
             ELSE IF r.out # <<>> THEN [seen EXCEPT !.pc = "open", !.out = r.out]
             ELSE [seen EXCEPT !.pc = "finally", !.outcome = "Success"]]
  /\ UNCHANGED <<store, scratch, nextUuid, nextUpload, credentials, wiped, s1Vars>>

\* Line 86: open(result_filepath, 'w') creates or truncates the result file.
PF_Open(w) ==
  /\ req[w].op = "ProcessFile" /\ req[w].pc = "open"
  /\ LET loc == SessionPath(req[w].token)
         n == req[w].stem
     IN  IF loc \notin DOMAIN store
         THEN /\ req' = [req EXCEPT ![w] = PF_Fail(req[w], "FileNotFoundError")]
              /\ UNCHANGED store
         ELSE /\ store' = [store EXCEPT ![loc] =
                    (n :> [writers |-> (IF n \in DOMAIN store[loc]
                                        THEN store[loc][n].writers ELSE {}) \cup {w},
                           state |-> "empty", data |-> <<>>]) @@ store[loc]]
              /\ req' = [req EXCEPT ![w].pc = "dump"]
  /\ UNCHANGED <<scratch, nextUuid, nextUpload, credentials, wiped, s1Vars>>

\* What a write of data at offset 0 leaves in a file: over content written
\* since the file was truncated, the new content or a mix of both.
Written(file, data) ==
  IF file.state = "empty"
  THEN {[state |-> "json", data |-> data]}
  ELSE {[state |-> "json", data |-> data], [state |-> "corrupt", data |-> <<>>]}

\* Lines 87-90: json.dump, the close of the file, and the return.
PF_Dump(w) ==
  /\ req[w].op = "ProcessFile" /\ req[w].pc = "dump"
  /\ LET loc == SessionPath(req[w].token)
         n == req[w].stem
     IN  IF loc \in DOMAIN store /\ n \in DOMAIN store[loc]
            /\ w \in store[loc][n].writers
         THEN \E c \in Written(store[loc][n], req[w].out) :
                store' = [store EXCEPT ![loc][n] =
                   [writers |-> @.writers \ {w}, state |-> c.state, data |-> c.data]]
         ELSE UNCHANGED store
  /\ req' = [req EXCEPT ![w].pc = "finally", ![w].outcome = "Success"]
  /\ UNCHANGED <<scratch, nextUuid, nextUpload, credentials, wiped, s1Vars>>

\* Line 97: os.path.exists(filepath)
PF_FinallyCheck(w) ==
  /\ req[w].op = "ProcessFile" /\ req[w].pc = "finally"
  /\ req' = [req EXCEPT ![w] =
               IF ScratchAt(ScratchPath(req[w])) # {}
               THEN [req[w] EXCEPT !.pc = "remove"] ELSE Done(req[w])]
  /\ UNCHANGED <<store, scratch, nextUuid, nextUpload, credentials, wiped, s1Vars>>

\* An exception in a finally clause replaces the response that the try
\* block or the except clause had produced.
Unhandled(r, e) == Done([r EXCEPT !.outcome = "Unhandled", !.err = e])

\* Line 98: os.remove(filepath)
PF_FinallyRemove(w) ==
  /\ req[w].op = "ProcessFile" /\ req[w].pc = "remove"
  /\ LET here == ScratchAt(ScratchPath(req[w]))
     IN  /\ scratch' = scratch \ here
         /\ req' = [req EXCEPT ![w] =
              IF here = {} THEN Unhandled(req[w], "FileNotFoundError")
              ELSE Done(req[w])]
  /\ UNCHANGED <<store, nextUuid, nextUpload, credentials, wiped, s1Vars>>

\* ---------------------------------------------------- aggregate_results
\* get_stage2_prompt: the flattening loop assigns into every element of
\* every consumption_records value, which raises when one is not a list
\* of objects.
get_stage2_prompt(all_page_outputs) ==
  IF \E i \in 1..Len(all_page_outputs) : all_page_outputs[i].kind \in {"badlist", "nonlist"}
  THEN "TypeError" ELSE ""

\* The answers of the completion service to a Stage-2 prompt: a failed
\* call, text that is not JSON, the object {}, a report made of records of
\* the prompt only, and a report that also holds a record that is in no
\* PageRecord of the prompt.
Stage2Answers == {"error", "nonjson", "emptyobj", "report", "fabricated"}

\* run_stage2_aggregation(all_page_outputs, ...): exc, the number of
\* requests sent to the completion service, and the final_report returned.
run_stage2_aggregation(all_page_outputs, answer) ==
  IF all_page_outputs = <<>> THEN [exc |-> "NoData", gpt |-> 0, report |-> ""]
  ELSE IF get_stage2_prompt(all_page_outputs) # ""
    THEN [exc |-> get_stage2_prompt(all_page_outputs), gpt |-> 0, report |-> ""]
  ELSE IF run_gpt_analysis(answer) \in {"None", "emptyobj"}
    THEN [exc |-> "Stage2Failed", gpt |-> 1, report |-> ""]
  ELSE [exc |-> "", gpt |-> 1, report |-> run_gpt_analysis(answer)]

\* Lines 105-112
AG_Begin(w, t) ==
  /\ Free(w)
  /\ req' = [req EXCEPT ![w] =
       IF ~is_session_valid(t) THEN Rejected("Aggregate", t)
       ELSE [Idle EXCEPT !.op = "Aggregate", !.pc = "listdir", !.token = t,
                         !.touched = TRUE]]
  /\ UNCHANGED <<store, scratch, nextUuid, nextUpload, credentials, wiped, s1Vars>>

\* The except clause (lines 130-131) followed by the finally clause.
AG_Fail(r, e) ==
  [r EXCEPT !.pc = "finally", !.outcome = "AggregationFailed", !.err = e,
            !.todo = {}, !.out = <<>>]

\* Line 117: os.listdir(session_path); the entries that end with .json
AG_Listdir(w) ==
  /\ req[w].op = "Aggregate" /\ req[w].pc = "listdir"
  /\ LET loc == SessionPath(req[w].token)
     IN  req' = [req EXCEPT ![w] =
           IF loc \notin DOMAIN store THEN AG_Fail(req[w], "FileNotFoundError")
           ELSE [req[w] EXCEPT !.pc = "read", !.todo = DOMAIN store[loc],
                               !.empty = (store[loc] = EmptyDir)]]
  /\ UNCHANGED <<store, scratch, nextUuid, nextUpload, credentials, wiped, s1Vars>>

\* Lines 118-120: one iteration of the loop, in the order of the listing.
AG_ReadFile(w) ==
  /\ req[w].op = "Aggregate" /\ req[w].pc = "read"
  /\ \E n \in req[w].todo :
       LET loc == SessionPath(req[w].token)
       IN  req' = [req EXCEPT ![w] =
             IF loc \notin DOMAIN store \/ n \notin DOMAIN store[loc]
               THEN AG_Fail(req[w], "FileNotFoundError")
             ELSE IF store[loc][n].state # "json"
               THEN AG_Fail(req[w], "JSONDecodeError")
             ELSE [req[w] EXCEPT !.out = @ \o store[loc][n].data,
                                 !.todo = @ \ {n}]]
  /\ UNCHANGED <<store, scratch, nextUuid, nextUpload, credentials, wiped, s1Vars>>

\* Lines 122-128: the emptiness test and Stage 2.
AG_Stage2(w) ==
  /\ req[w].op = "Aggregate" /\ req[w].pc = "read" /\ req[w].todo = {}
  /\ IF req[w].out = <<>>
     THEN req' = [req EXCEPT ![w].pc = "finally",
                             ![w].outcome = "NothingToAggregate"]
     ELSE \E answer \in Stage2Answers :
       LET r == run_stage2_aggregation(req[w].out, answer)
           seen == [req[w] EXCEPT !.gpt = r.gpt]
       IN  req' = [req EXCEPT ![w] =
             IF r.exc # "" THEN AG_Fail(seen, r.exc)
             ELSE [seen EXCEPT !.pc = "finally", !.outcome = "FinalReport",
                               !.sent = req[w].out, !.out = <<>>]]
  /\ UNCHANGED <<store, scratch, nextUuid, nextUpload, credentials, wiped, s1Vars>>

\* Line 134: os.path.isdir(session_path)
AG_FinallyCheck(w) ==
  /\ req[w].op = "Aggregate" /\ req[w].pc = "finally"
  /\ req' = [req EXCEPT ![w] =
               IF IsDir(SessionPath(req[w].token))
               THEN [req[w] EXCEPT !.pc = "rmtree"] ELSE Done(req[w])]
  /\ UNCHANGED <<store, scratch, nextUuid, nextUpload, credentials, wiped, s1Vars>>

\* Line 135, shutil.rmtree, first half: the entries of the directory are
\* removed (those of PROCESSING_FOLDER itself are the session directories
\* and the files beside them).
AG_RmtreeUnlink(w) ==
  /\ req[w].op = "Aggregate" /\ req[w].pc = "rmtree"
  /\ LET loc == SessionPath(req[w].token)
     IN  IF loc \notin DOMAIN store
         THEN /\ req' = [req EXCEPT ![w] = Unhandled(req[w], "FileNotFoundError")]
              /\ UNCHANGED <<store, wiped>>
         ELSE /\ store' = IF loc = ROOT THEN (ROOT :> EmptyDir)
                          ELSE [store EXCEPT ![loc] = EmptyDir]
              /\ wiped' = wiped \cup (IF loc = ROOT THEN DOMAIN store ELSE {loc})
              /\ req' = [req EXCEPT ![w].pc = "rmdir"]
  /\ UNCHANGED <<scratch, nextUuid, nextUpload, credentials, s1Vars>>

\* Line 135, shutil.rmtree, second half: os.rmdir of the directory, which
\* fails on a directory that is gone, that has entries again, or that is
\* named with a final '.'.
AG_RmtreeRmdir(w) ==
  /\ req[w].op = "Aggregate" /\ req[w].pc = "rmdir"
  /\ LET loc == SessionPath(req[w].token)
     IN  IF loc \notin DOMAIN store
         THEN /\ req' = [req EXCEPT ![w] = Unhandled(req[w], "FileNotFoundError")]
              /\ UNCHANGED store
         ELSE IF loc = ROOT \/ store[loc] # EmptyDir
         THEN /\ req' = [req EXCEPT ![w] = Unhandled(req[w], "OSError")]
              /\ UNCHANGED store
         ELSE /\ store' = [l \in DOMAIN store \ {loc} |-> store[l]]
              /\ req' = [req EXCEPT ![w] = Done(req[w])]
  /\ UNCHANGED <<scratch, nextUuid, nextUpload, credentials, wiped, s1Vars>>

\* ------------------------------------------------------------ the server
\* The steps of the worker threads in ws, for requests with a session_id
\* of toks, a file name of names and documents of at most max pages with
\* answers of kinds.
Server(ws, toks, names, max, kinds) ==
  \/ StartSession
  \/ \E w \in ws, t \in toks, f \in names : PF_Begin(w, t, f)
  \/ \E w \in ws : PF_Save(w)
  \/ \E w \in ws : PF_Stage1(w, max, kinds)
  \/ \E w \in ws : PF_Open(w)
  \/ \E w \in ws : PF_Dump(w)
  \/ \E w \in ws : PF_FinallyCheck(w)
  \/ \E w \in ws : PF_FinallyRemove(w)
  \/ \E w \in ws, t \in toks : AG_Begin(w, t)
  \/ \E w \in ws : AG_Listdir(w)
  \/ \E w \in ws : AG_ReadFile(w)
  \/ \E w \in ws : AG_Stage2(w)
  \/ \E w \in ws : AG_FinallyCheck(w)
  \/ \E w \in ws : AG_RmtreeUnlink(w)
  \/ \E w \in ws : AG_RmtreeRmdir(w)

\* Concurrent requests: every thread, the session ids handed out and the
\* names '.'; three file names.
ClientTokens == {Uuid(n) : n \in 1..MaxSessions} \cup {<<".">>}
ClientNames ==
  {[stem |-> "x", ext |-> ".pdf"], [stem |-> "y", ext |-> ".pdf"],
   [stem |-> "x", ext |-> ".txt"]}

ClientKinds == {"nonjson", "recs", "nonlist"}

Next == Server(Workers, ClientTokens, ClientNames, MaxBatch, ClientKinds)

Spec == Init /\ [][Next]_vars

\* One request at a time, with every session_id and every file name.
InitSeq ==
  /\ InitApp
  /\ credentials \in BOOLEAN
  /\ s1in = NoInput /\ s1pc = "off" /\ s1res = NoResult
  /\ s2res = NoReport /\ prompt = NoPrompt

SeqNames == {f \in AllNames : f.stem = "x"} \cup {NoUpload}

NextSeq == Server({1}, Tokens, SeqNames, MaxPages, GptKinds)

SpecSeq == InitSeq /\ [][NextSeq]_vars

\* One request at a time on one session, with two file names that give
\* two result files.
OrderNames == {[stem |-> "x", ext |-> ".pdf"], [stem |-> "y", ext |-> ".pdf"]}
OrderKinds == {"norecs", "recs"}

NextOrder == Server({1}, {Uuid(1)}, OrderNames, MaxPages, OrderKinds)

SpecOrder == Init /\ [][NextOrder]_vars

\* ------------------------------------------- Stage 1 on one document
\* run_stage1_for_file on every file type and every answer of the two
\* services, in its two parts: the extraction of the pages, then the loop
\* over them.
InitStage1 ==
  /\ InitApp
  /\ credentials = TRUE
  /\ s1in \in {i \in [ext : Exts, exists : BOOLEAN, d : Documents(MaxPages, GptKinds)] :
                 i.d \in DocsFor(i.ext, MaxPages, GptKinds)}
  /\ s1pc = "input"
  /\ s1res = NoResult
  /\ s2res = NoReport /\ prompt = NoPrompt

\* Line 185
S1_Extract ==
  /\ s1pc = "input"
  /\ LET ex == extract_text_from_pages(s1in.ext, s1in.exists, s1in.d)
     IN  /\ s1res' = [NoResult EXCEPT !.exc = ex.exc, !.pages = ex.pages,
                                      !.ocr = ex.ocr]
         /\ s1pc' = IF ex.exc # "" THEN "raised" ELSE "extracted"
  /\ UNCHANGED <<s1in, s2res, prompt, store, scratch, req, nextUuid, nextUpload,
                 credentials, wiped>>

\* Lines 186-192
S1_Analyze ==
  /\ s1pc = "extracted"
  /\ LET r == run_stage1_for_file(1, s1in.ext, s1in.exists, s1in.d)
     IN  s1res' = [s1res EXCEPT !.out = r.out, !.gpt = r.gpt]
  /\ s1pc' = "returned"
  /\ UNCHANGED <<s1in, s2res, prompt, store, scratch, req, nextUuid, nextUpload,
                 credentials, wiped>>

\* run_stage2_aggregation on the PageRecords that Stage 1 returned.
S1_Aggregate ==
  /\ s1pc = "returned"
  /\ \E answer \in Stage2Answers :
       LET r == run_stage2_aggregation(s1res.out, answer)
       IN  s2res' = [answer |-> answer, exc |-> r.exc, gpt |-> r.gpt,
                     report |-> r.report]
  /\ s1pc' = "aggregated"
  /\ UNCHANGED <<s1in, s1res, prompt, store, scratch, req, nextUuid, nextUpload,
                 credentials, wiped>>

NextStage1 == S1_Extract \/ S1_Analyze \/ S1_Aggregate

SpecStage1 == InitStage1 /\ [][NextStage1]_vars

\* ------------------------------------------- the Stage-2 prompt
\* The objects of a Stage-1 answer that follows the schema.  "None" is
\* the value of .get for a key the page object lacks; "absent" marks a
\* key a record lacks, "old" a value the record carries itself.
CustomerNames == {"None", "A", "B"}
CustomerIds == {"None", "1"}
Sites == {"s1", "s2"}
Own == {"absent", "old"}
ConsumptionRecords ==
  {r \in [site_id : Sites, customer_name : Own, customer_identifier : Own] :
     r.customer_name = r.customer_identifier}
PageObjects ==
  [customer_name : CustomerNames, customer_identifier : CustomerIds,
   consumption_records : UNION {[1..n -> ConsumptionRecords] : n \in 1..MaxRecs}]
PageLists == UNION {[1..n -> PageObjects] : n \in 1..MaxPages}

\* The stamps written only into a record that carries none itself.
Stamp_KeepOwn(page_data, record) ==
  IF record.customer_name = "absent"
  THEN [record EXCEPT !.customer_name = page_data.customer_name,
                      !.customer_identifier = page_data.customer_identifier]
  ELSE record

\* Lines 100-101: the two assignments into the record.
Stamp(page_data, record) ==
  [record EXCEPT !.customer_name = page_data.customer_name,
                 !.customer_identifier = page_data.customer_identifier]

\* Lines 99-102: the inner loop over the records of one page.
FlattenPage(page_data) ==
  [k \in 1..Len(page_data.consumption_records) |->
     Stamp(page_data, page_data.consumption_records[k])]

\* Lines 95-102: all_consumption_records after the loops.
RECURSIVE Flatten(_, _)
Flatten(list_of_page_outputs, i) ==
  IF i > Len(list_of_page_outputs) THEN <<>>
  ELSE FlattenPage(list_of_page_outputs[i]) \o Flatten(list_of_page_outputs, i + 1)

\* list_of_page_outputs after the call: the records appended to the flat
\* list are the objects of the argument, assigned into in place.
ArgAfter(list_of_page_outputs) ==
  [i \in 1..Len(list_of_page_outputs) |->
     [list_of_page_outputs[i] EXCEPT
        !.consumption_records = FlattenPage(list_of_page_outputs[i])]]

InitPrompt ==
  /\ InitApp
  /\ credentials = TRUE
  /\ s1in = NoInput /\ s1pc = "off" /\ s1res = NoResult /\ s2res = NoReport
  /\ prompt \in {[pc |-> "input", given |-> l, arg |-> l, flat |-> <<>>] :
                   l \in PageLists}

\* get_stage2_prompt(list_of_page_outputs, entity_filter)
S2_Render ==
  /\ prompt.pc = "input"
  /\ prompt' = [prompt EXCEPT !.pc = "rendered",
                              !.arg = ArgAfter(prompt.arg),
                              !.flat = Flatten(prompt.arg, 1)]
  /\ UNCHANGED <<s1in, s1pc, s1res, s2res, store, scratch, req, nextUuid,
                 nextUpload, credentials, wiped>>

NextPrompt == S2_Render

SpecPrompt == InitPrompt /\ [][NextPrompt]_vars

\* ================================================================ claims
\* The session ids start_session has returned so far.
SessionTokens == {Uuid(n) : n \in 1..nextUuid}

\* readAll: the PageRecords stored under a session directory.
Collection(loc) ==
  UNION {{store[loc][n].data[i] : i \in 1..Len(store[loc][n].data)} :
           n \in DOMAIN store[loc]}

Batch(w) == {req[w].out[i] : i \in 1..Len(req[w].out)}

\* Worker w has answered success to an upload into s that yielded records.
Acked(w, s) ==
  /\ req[w].op = "ProcessFile" /\ req[w].pc = "done"
  /\ req[w].outcome = "Success" /\ req[w].token = s /\ req[w].out # <<>>

\* The worker takes a step; the session_id of the request it works on.
Acts(w) == req'[w] # req[w]
StepToken(w) == IF Free(w) THEN req'[w].token ELSE req[w].token

\* C1: when two uploads into one session, with non-empty batches made
\* from different files, have both answered success (and no cleanup has
\* touched the session), the session's stored collection holds both batches.
C1_NoBatchLost ==
  \A s \in SessionTokens : \A w1, w2 \in Workers :
    (/\ w1 # w2 /\ Acked(w1, s) /\ Acked(w2, s)
     /\ \A r1 \in Batch(w1), r2 \in Batch(w2) : r1.doc # r2.doc
     /\ s \in DOMAIN store /\ s \notin wiped)
    => (Batch(w1) \cup Batch(w2)) \subseteq Collection(s)

\* C2: when an Aggregate request on a session returns, no directory of that
\* session is left, and a request that arrives with the session_id of a
\* removed session is answered InvalidSession and changes nothing in the
\* store.
C2_CleanupAlways ==
  [][\A w \in Workers :
       /\ (/\ req'[w].op = "Aggregate" /\ req'[w].pc = "done"
           /\ req'[w].token \in SessionTokens
           /\ req'[w].outcome # "InvalidSession")
          => req'[w].token \notin DOMAIN store'
       /\ (/\ Free(w) /\ Acts(w)
           /\ req'[w].token \in SessionTokens \ DOMAIN store)
          => (/\ req'[w].pc = "done" /\ req'[w].outcome = "InvalidSession"
              /\ store' = store)]_vars

\* C3: a request that is not answered InvalidSession carries a session_id
\* that start_session has returned.
C3_OnlyOpenSessionsAccepted ==
  \A w \in Workers :
    (req[w].op # "none" /\ req[w].outcome # "InvalidSession")
    => req[w].token \in SessionTokens

\* C4: a step of a request that carries another session_id than b's leaves
\* the directory of an open session b, and what it holds, as they are.
C4_Isolation ==
  [][\A w \in Workers : \A b \in SessionTokens :
       (Acts(w) /\ StepToken(w) # b /\ b \in DOMAIN store)
       => (b \in DOMAIN store' /\ store'[b] = store[b])]_vars

Traversal(t) == HasDotDot(t) \/ HasSlash(t)

\* C5: a request whose session_id contains '..' or '/' is answered
\* InvalidSession without any storage call made for it.
C5_TraversalRejected ==
  \A w \in Workers :
    (req[w].op # "none" /\ Traversal(req[w].token))
    => (/\ req[w].pc = "done" /\ req[w].outcome = "InvalidSession"
        /\ ~req[w].touched)

\* An Aggregate with the session_id "a/", which names the directory of the
\* open session "a", has been refused.
C5_Witness ==
  \E w \in Workers :
    /\ req[w].op = "Aggregate" /\ req[w].pc = "done"
    /\ req[w].token = <<"a", "/">> /\ <<"a">> \in DOMAIN store
    /\ req[w].outcome = "InvalidSession"

\* C6: an Aggregate request on a session whose directory held no result
\* file when it was listed is answered NothingToAggregate and has sent no
\* request to the completion service.
C6_EmptyIsNothingToAggregate ==
  \A w \in Workers :
    (/\ req[w].op = "Aggregate" /\ req[w].pc = "done"
     /\ req[w].token \in SessionTokens /\ req[w].empty)
    => (req[w].outcome = "NothingToAggregate" /\ req[w].gpt = 0)

\* The extracted pages whose completion answer is present and has a
\* non-empty consumption_records list.
ListPages ==
  {j \in 1..Len(s1in.d.pages) :
     /\ \E k \in 1..Len(s1res.pages) : s1res.pages[k].text = j
     /\ s1in.d.pages[j].gpt \in {"recs", "badlist"}}

\* C7: run_stage1_for_file returns exactly one PageRecord for each
\* extracted page whose completion answer has a non-empty
\* consumption_records list, in page order, and none for any other page.
C7_OneRecordPerListPage ==
  s1pc = "returned" =>
    /\ Len(s1res.out) = Cardinality(ListPages)
    /\ \A k \in 1..Len(s1res.out) : s1res.out[k].page \in ListPages
    /\ \A k, l \in 1..Len(s1res.out) :
         k < l => s1res.out[k].page < s1res.out[l].page

\* C8: for an image file that exists and for which the OCR service reports
\* no error, extract_text_from_pages returns one page, numbered 1, with
\* the text of the image.
C8_ImageYieldsOnePage ==
  (/\ s1pc # "input" /\ s1in.ext \in ImageExts /\ s1in.exists
   /\ ~s1in.d.callFails /\ ~s1in.d.pages[1].err)
  => (s1res.exc = "" /\ s1res.pages = <<[page_num |-> 1, text |-> 1]>>)

\* The pages of the PDF answer that carry no error.
CleanPages == {j \in 1..Len(s1in.d.pages) : ~s1in.d.pages[j].err}

\* C9: for a PDF whose OCR call succeeds, extract_text_from_pages does not
\* raise and returns exactly the pages without an error, in page order,
\* each with its own page number and text, and Stage 1 sends one
\* completion request for each of them.
C9_PdfPageErrorsSkipped ==
  (s1pc # "input" /\ Lower(s1in.ext) = ".pdf" /\ s1in.exists /\ ~s1in.d.callFails)
  => /\ s1res.exc = ""
     /\ Len(s1res.pages) = Cardinality(CleanPages)
     /\ \A k \in 1..Len(s1res.pages) :
          /\ s1res.pages[k].page_num \in CleanPages
          /\ s1res.pages[k].text = s1res.pages[k].page_num
     /\ \A k, l \in 1..Len(s1res.pages) :
          k < l => s1res.pages[k].page_num < s1res.pages[l].page_num
     /\ s1pc = "returned" => s1res.gpt = Cardinality(CleanPages)

\* Stage 1 has run on a two-page PDF whose first page carried an error.
C9_Witness ==
  /\ s1pc = "returned" /\ s1in.ext = ".pdf"
  /\ Len(s1in.d.pages) = 2
  /\ s1in.d.pages[1].err /\ ~s1in.d.pages[2].err
  /\ s1in.d.pages[2].gpt = "recs"
  /\ s1res.pages = <<[page_num |-> 2, text |-> 2]>>
  /\ Len(s1res.out) = 1

Unsupported(ext) == Lower(ext) \notin ({".pdf"} \cup ImageExts)

\* C10: an upload into a session of a file with an unsupported extension
\* is answered with the unsupported-type error, and no request was sent to
\* the OCR or the completion service for it.
C10_UnsupportedFailsBeforeNetwork ==
  \A w \in Workers :
    (/\ req[w].op = "ProcessFile" /\ req[w].pc = "done"
     /\ req[w].outcome \notin {"InvalidSession", "NoFile"}
     /\ req[w].token \in SessionTokens
     /\ Unsupported(req[w].ext))
    => (/\ req[w].outcome = "Failed" /\ req[w].err = "ValueError"
        /\ req[w].ocr = 0 /\ req[w].gpt = 0)

\* A ProcessFile request between file.save and the end of its finally clause.
InFlight(w) ==
  req[w].op = "ProcessFile" /\ req[w].pc \in {"stage1", "open", "dump", "finally", "remove"}

C12_ArrivalOrder ==
  \A w \in Workers :
    (/\ req[w].op = "Aggregate" /\ req[w].pc = "done"
     /\ req[w].outcome = "FinalReport")
    => \A k, l \in 1..Len(req[w].sent) :
         k < l => \/ req[w].sent[k].doc < req[w].sent[l].doc
                  \/ /\ req[w].sent[k].doc = req[w].sent[l].doc
                     /\ req[w].sent[k].page < req[w].sent[l].page

\* C13: no Aggregate request on a session fails because a result file it
\* read was empty or partly written.
C13_NoTornRead ==
  \A w \in Workers :
    (req[w].op = "Aggregate" /\ req[w].token \in SessionTokens)
    => req[w].err # "JSONDecodeError"

\* The PageRecords in the result files of the session directories.
Stored == UNION {Collection(loc) : loc \in SessionTokens \cap DOMAIN store}

\* C14: no PageRecord made from a completion answer that violates the
\* Stage-1 schema is stored, no ProcessFile request fails because of such
\* an answer, and no Aggregate request fails in get_stage2_prompt because
\* of one.
C14_MalformedIsAbsent ==
  /\ \A r \in Stored : r.kind = "recs"
  /\ \A w \in Workers :
       req[w].token \in SessionTokens => req[w].err # "TypeError"

\* C18: of the Aggregate requests that carry the session_id of one
\* session at most one sends a Stage-2 completion request, and none ends
\* with an exception that escaped its cleanup.
C18_AggregatedOnce ==
  /\ \A w1, w2 \in Workers :
       (/\ w1 # w2 /\ req[w1].op = "Aggregate" /\ req[w2].op = "Aggregate"
        /\ req[w1].token = req[w2].token /\ req[w1].token \in SessionTokens)
       => ~(req[w1].gpt > 0 /\ req[w2].gpt > 0)
  /\ \A w \in Workers :
       (req[w].op = "Aggregate" /\ req[w].token \in SessionTokens)
       => req[w].outcome # "Unhandled"

\* C19: when an Aggregate on a session has returned a final report and a
\* ProcessFile on that session has returned success with a non-empty
\* batch, the batch was in the list that the Aggregate passed to Stage 2.
C19_NoSilentLoss ==
  \A s \in SessionTokens : \A wa, wu \in Workers :
    (/\ req[wa].op = "Aggregate" /\ req[wa].pc = "done"
     /\ req[wa].token = s /\ req[wa].outcome = "FinalReport"
     /\ Acked(wu, s))
    => Batch(wu) \subseteq {req[wa].sent[i] : i \in 1..Len(req[wa].sent)}

C16_PromptIsPure ==
  prompt.pc = "rendered" => prompt.arg = prompt.given

\* C17: a final report that run_stage2_aggregation returns holds no record
\* that is absent from the PageRecords it was given.
C17_NoFabrication ==
  (s1pc = "aggregated" /\ s2res.exc = "") => s2res.report # "fabricated"

\* Number of consumption records in the first i PageRecords of the list.
RECURSIVE RecsBefore(_, _)
RecsBefore(l, i) ==
  IF i = 0 THEN 0 ELSE RecsBefore(l, i - 1) + Len(l[i].consumption_records)

\* C20: the flat list has one entry for every consumption record of every
\* PageRecord given, in PageRecord order and then record order; the entry
\* has the record's own site_id and the customer_name and
\* customer_identifier of the record's PageRecord.
C20_FlatList ==
  prompt.pc = "rendered" =>
    /\ Len(prompt.flat) = RecsBefore(prompt.given, Len(prompt.given))
    /\ \A i \in 1..Len(prompt.given) :
         \A k \in 1..Len(prompt.given[i].consumption_records) :
           LET e == prompt.flat[RecsBefore(prompt.given, i - 1) + k]
           IN  /\ e.site_id = prompt.given[i].consumption_records[k].site_id
               /\ e.customer_name = prompt.given[i].customer_name
               /\ e.customer_identifier = prompt.given[i].customer_identifier

\* The prompt was rendered for two PageRecords of different customers,
\* the second with two records of which one carried its own customer_name.
C20_Witness ==
  /\ prompt.pc = "rendered" /\ Len(prompt.given) = 2
  /\ prompt.given[1].customer_name = "A" /\ prompt.given[2].customer_name = "B"
  /\ Len(prompt.given[2].consumption_records) = 2
  /\ prompt.given[2].consumption_records[1].customer_name = "old"
  /\ Len(prompt.flat) = Len(prompt.given[1].consumption_records) + 2

====
